---- MODULE Spec2Model ----
(***************************************************************************)
(* CalcDeltaApp (src/app.py): relative gene expression by the comparative  *)
(* Ct method.  calculate_analysis is modelled as it is computed by pandas: *)
(* in-place coercion of the Ct column, per-gene grouping with group keys   *)
(* in ascending order, index-aligned subtraction of the two mean tables,   *)
(* baseline lookup by control group, fold change 2^(-ddCt).  The event     *)
(* loop of create_gui (Read / Analyze / Plot Graphs) is modelled around it.*)
(*                                                                         *)
(* Values:                                                                 *)
(*  - a Ct cell is [k, v]: k = "num" (a number v), "numstr" (text that     *)
(*    parses to the number v), "str" (other text), "nan" (empty cell);     *)
(*  - a computed value is a float, [k, n, d, exact, src]: k = "nan" (NaN), *)
(*    "num" or "pow2".  n/d (lowest terms, d > 0) is what real arithmetic  *)
(*    gives ("pow2": 2^(n/d)).  exact = TRUE: the float is that number.    *)
(*    exact = FALSE: the float is that number up to the rounding of the    *)
(*    operations that produced it, which src records, so that two records  *)
(*    are equal only if the floats are (x - x is 0.0 exactly, while two    *)
(*    rounded values whose real difference is 0 need not be equal).  Ct    *)
(*    numbers are integer-valued, so group sums are exact and the first    *)
(*    rounding is the division of the mean;                                *)
(*  - genes are strings, groups are positive numbers; "" and 0 stand for   *)
(*    the empty selection of a selector (both falsy in the source);        *)
(*  - a DataFrame is [loaded, columns, rows]; a field of a row whose       *)
(*    column is not in `columns` holds a placeholder that is never read;   *)
(*  - result.csv is [written, bytes, floats]: bytes is the content of the  *)
(*    file byte by byte, as the utf_8_sig encoder and csv.writer produce   *)
(*    it.  The digits of a float are computed where they are those of its  *)
(*    exact value; the text of any other float (its shortest round-trip    *)
(*    decimal) is one entry ReprWhole of bytes, ReprCut when the file ends *)
(*    inside it, and floats lists in order the floats so entered.          *)
(***************************************************************************)
EXTENDS Integers, Sequences, FiniteSets, TLC

\* Largest number of rows of the datasets calculate_analysis is applied to
\* under SpecCalc.
MaxRows == 3

VARIABLES
    df,          \* the global DataFrame (app.py:7), [loaded |-> FALSE, ...] for None
    refValues,   \* values offered by the -REFERENCE- selector
    ctrlValues,  \* values offered by the -CONTROL- selector
    refSel,      \* value selected in -REFERENCE- ("" when empty)
    ctrlSel,     \* value selected in -CONTROL- (0 when empty)
    table,       \* rows shown by -TABLE-
    csv,         \* contents of result.csv
    popups,      \* error popups raised by the last event handled
    charts,      \* genes charted so far by the last event handled
    toPlot,      \* Plot Graphs in progress: the genes whose chart is on screen or
                 \* still to come (plt.show() blocks the handler); <<>> otherwise
    lastEvent,   \* the last event handled
    lastCall     \* history of SpecCalc: the last direct call of calculate_analysis,
                 \* its input frame, parameters and outcome

vars == <<df, refValues, ctrlValues, refSel, ctrlSel, table, csv, popups,
          charts, toPlot, lastEvent, lastCall>>

----------------------------------------------------------------------------
\* Arithmetic on computed values

NaN == [k |-> "nan", n |-> 0, d |-> 1, exact |-> TRUE, src |-> <<>>]

Abs(x) == IF x < 0 THEN -x ELSE x

RECURSIVE GCD(_, _)
GCD(a, b) == IF b = 0 THEN a ELSE GCD(b, a % b)

\* the float that is the rational n/d (d # 0) exactly, in lowest terms
Rat(n, d) ==
    LET g == GCD(Abs(n), Abs(d))
        s == IF d < 0 THEN -1 ELSE 1
    IN [k |-> "num", n |-> (s * n) \div g, d |-> (s * d) \div g,
        exact |-> TRUE, src |-> <<>>]

Zero == Rat(0, 1)
One == Rat(1, 1)

\* a binary float holds n/d exactly only if d is a power of two (the
\* magnitudes here are far from the limits of the format)
RECURSIVE IsPow2(_)
IsPow2(d) == d = 1 \/ (d % 2 = 0 /\ IsPow2(d \div 2))

\* what identifies a float in the src of a result computed from it
Enc(v) == <<v.n, v.d, Len(v.src)>> \o v.src

\* sumx / count of two exact operands: rounded unless the quotient is binary
Div(s, c) ==
    LET q == Rat(s, c)
    IN IF IsPow2(q.d) THEN q ELSE [q EXCEPT !.exact = FALSE, !.src = <<1>>]

\* a - b on two float Series elements: NaN when either side is NaN, 0.0 when
\* both are the same float, exact when both are exact, rounded otherwise
Sub(a, b) ==
    IF a.k # "num" \/ b.k # "num" THEN NaN
    ELSE IF a = b THEN Zero
    ELSE LET q == Rat(a.n * b.d - b.n * a.d, a.d * b.d)
         IN IF a.exact /\ b.exact THEN q
            ELSE [q EXCEPT !.exact = FALSE, !.src = <<2>> \o Enc(a) \o Enc(b)]

RECURSIVE TwoTo(_)
TwoTo(e) == IF e = 0 THEN 1 ELSE 2 * TwoTo(e - 1)

\* 2 ** -x: a power of two for an exact integer x, a rounded value otherwise
Pow2Neg(x) ==
    IF x.k # "num" THEN NaN
    ELSE IF x.exact /\ x.d = 1
         THEN (IF x.n <= 0 THEN Rat(TwoTo(-x.n), 1) ELSE Rat(1, TwoTo(x.n)))
         ELSE [k |-> "pow2", n |-> -x.n, d |-> x.d, exact |-> FALSE,
               src |-> <<3>> \o Enc(x)]

----------------------------------------------------------------------------
\* DataFrames

required_columns == {"Gene", "Group", "Ct"}

NoFrame == [loaded |-> FALSE, columns |-> {}, rows |-> <<>>]

NumCell(v) == [k |-> "num", v |-> v]
NumStrCell(v) == [k |-> "numstr", v |-> v]
StrCell == [k |-> "str", v |-> 0]
NaNCell == [k |-> "nan", v |-> 0]

\* variant: empty cells filled with 0 before the coercion
CoerceNaNFirst(c) ==
    IF c.k = "num" THEN c
    ELSE IF c.k = "numstr" THEN NumCell(c.v)
    ELSE IF c.k = "nan" THEN NumCell(0)
    ELSE NaNCell

\* pd.to_numeric(..., errors='coerce') on one cell
to_numeric(c) ==
    IF c.k = "num" THEN c
    ELSE IF c.k = "numstr" THEN NumCell(c.v)
    ELSE NaNCell

\* data['Ct'] = pd.to_numeric(data['Ct'], errors='coerce'): the column of the
\* caller's frame is replaced
CoerceCt(data) ==
    [data EXCEPT !.rows = [i \in 1..Len(data.rows) |->
                              [data.rows[i] EXCEPT !.Ct = to_numeric(@)]]]

\* Series.unique(): the distinct values in order of first appearance
RECURSIVE Unique(_)
Unique(s) ==
    IF s = <<>> THEN <<>>
    ELSE LET u == Unique(SubSeq(s, 1, Len(s) - 1))
             x == s[Len(s)]
         IN IF \E i \in 1..Len(u) : u[i] = x THEN u ELSE Append(u, x)

GeneColumn(data) == [i \in 1..Len(data.rows) |-> data.rows[i].Gene]
GroupColumn(data) == [i \in 1..Len(data.rows) |-> data.rows[i].Group]

\* data[data['Gene'] == gene]
RowsOfGene(data, gene) == SelectSeq(data.rows, LAMBDA r : r.Gene = gene)

\* the keys of groupby(['Group']), ascending
RECURSIVE SortAsc(_)
SortAsc(S) ==
    IF S = {} THEN <<>>
    ELSE LET m == CHOOSE x \in S : \A y \in S : x <= y
         IN <<m>> \o SortAsc(S \ {m})

RECURSIVE SumNum(_)
SumNum(cells) ==
    IF cells = <<>> THEN 0
    ELSE (IF Head(cells).k = "num" THEN Head(cells).v ELSE 0) + SumNum(Tail(cells))

CountNum(cells) == Len(SelectSeq(cells, LAMBDA c : c.k = "num"))

\* variant: mean(skipna=False), NaN as soon as one cell is NaN
MeanAnyNaN(cells) ==
    IF CountNum(cells) < Len(cells) \/ cells = <<>> THEN NaN
    ELSE Div(SumNum(cells), CountNum(cells))

\* Series.mean() of one group: NaN cells are skipped; NaN when none is left;
\* otherwise the (exact) sum divided by the count
Mean(cells) ==
    IF CountNum(cells) = 0 THEN NaN ELSE Div(SumNum(cells), CountNum(cells))

CtOfGroup(rows, g) ==
    LET sel == SelectSeq(rows, LAMBDA r : r.Group = g)
    IN [i \in 1..Len(sel) |-> sel[i].Ct]

\* rows.groupby(['Group'])['Ct'].mean().reset_index(): one row per group key,
\* ascending, renumbered 1..n
group_mean(rows) ==
    LET keys == SortAsc({rows[i].Group : i \in 1..Len(rows)})
    IN [i \in 1..Len(keys) |->
           [Group |-> keys[i], Mean |-> Mean(CtOfGroup(rows, keys[i]))]]

----------------------------------------------------------------------------
\* calculate_analysis (app.py:9-59)

\* variant: the error names the required columns, not the missing ones
AllRequiredIfAnyMissing(data) ==
    IF required_columns \subseteq data.columns THEN {} ELSE required_columns

\* set(required_columns) - set(data.columns)
missing_columns(data) == required_columns \ data.columns

\* variant: the reference gene is not filtered out
AllGenes(data, reference_gene) == Unique(GeneColumn(data))

\* data[data['Gene'] != reference_gene]['Gene'].unique()
target_genes(data, reference_gene) ==
    Unique(SelectSeq(GeneColumn(data), LAMBDA g : g # reference_gene))

\* target_gene_means[f'{gene}_Mean'] - reference_mean[f'{reference_gene}_Mean']
\* assigned as a column of delta_ct: both operands carry the index 0..n-1 left
\* by reset_index, the subtraction pairs the rows of equal index, and the
\* rows of delta_ct with no partner in reference_mean get NaN
delta_ct_column(target_gene_means, reference_mean) ==
    [i \in 1..Len(target_gene_means) |->
        Sub(target_gene_means[i].Mean,
            IF i <= Len(reference_mean) THEN reference_mean[i].Mean ELSE NaN)]

\* variant: the control rows' mean column is taken instead of their dCt
MeanColumnOfControl(target_gene_means, dct, control_group_number) ==
    LET idx == SelectSeq([i \in 1..Len(dct) |-> i],
                         LAMBDA i : target_gene_means[i].Group = control_group_number)
    IN [j \in 1..Len(idx) |-> target_gene_means[idx[j]].Mean]

\* variant: a baseline of 0 when the gene has no control row
ZeroWhenAbsent(target_gene_means, dct, control_group_number) ==
    LET idx == SelectSeq([i \in 1..Len(dct) |-> i],
                         LAMBDA i : target_gene_means[i].Group = control_group_number)
    IN IF idx = <<>> THEN <<Zero>> ELSE [j \in 1..Len(idx) |-> dct[idx[j]]]

\* delta_ct.loc[delta_ct['Group'] == control_group_number][f'{gene}_dCt'].values
control_values(target_gene_means, dct, control_group_number) ==
    LET idx == SelectSeq([i \in 1..Len(dct) |-> i],
                         LAMBDA i : target_gene_means[i].Group = control_group_number)
    IN [j \in 1..Len(idx) |-> dct[idx[j]]]

\* one pass of the loop body, lines 36-57: `values[0]` of an empty array
\* raises IndexError
gene_table(data, gene, reference_gene, control_group_number) ==
    LET reference_mean == group_mean(RowsOfGene(data, reference_gene))
        target_gene_means == group_mean(RowsOfGene(data, gene))
        dct == delta_ct_column(target_gene_means, reference_mean)
        base == control_values(target_gene_means, dct, control_group_number)
    IN IF base = <<>> THEN [ok |-> FALSE, rows |-> <<>>]
       ELSE [ok |-> TRUE,
             rows |-> [i \in 1..Len(target_gene_means) |->
                         [Group |-> target_gene_means[i].Group,
                          dCt |-> dct[i],
                          ddCt |-> Sub(dct[i], base[1]),
                          FoldChange |-> Pow2Neg(Sub(dct[i], base[1]))]]]

\* Outcome of a call.  On an error, fold_change_dict is the local dictionary
\* at the raise (the genes already processed); the exception discards it.
Outcome(status, error, missing, fold_change_dict) ==
    [status |-> status, error |-> error, missing |-> missing,
     fold_change_dict |-> fold_change_dict]

NoOutcome == Outcome("none", "none", {}, <<>>)

\* for gene in target_genes: ... fold_change_dict[gene] = ...
RECURSIVE gene_loop(_, _, _, _, _)
gene_loop(data, genes, reference_gene, control_group_number, fold_change_dict) ==
    IF genes = <<>> THEN Outcome("ok", "none", {}, fold_change_dict)
    ELSE LET t == gene_table(data, Head(genes), reference_gene, control_group_number)
         IN IF ~t.ok
            THEN Outcome("error", "IndexError", {}, fold_change_dict)
            ELSE gene_loop(data, Tail(genes), reference_gene, control_group_number,
                           Append(fold_change_dict,
                                  [gene |-> Head(genes), rows |-> t.rows]))

\* the call: the frame as the call leaves it, and the outcome
calculate_analysis(data, reference_gene, control_group_number) ==
    IF missing_columns(data) # {}
    THEN [data |-> data,
          outcome |-> Outcome("error", "ValueError", missing_columns(data), <<>>)]
    ELSE LET coerced == CoerceCt(data)
         IN [data |-> coerced,
             outcome |-> gene_loop(coerced, target_genes(coerced, reference_gene),
                                   reference_gene, control_group_number, <<>>)]

NoCall == [valid |-> FALSE, data |-> NoFrame, reference_gene |-> "",
           control_group_number |-> 0, outcome |-> NoOutcome]

----------------------------------------------------------------------------
\* SpecCalc: calculate_analysis applied to every dataset of at most MaxRows
\* rows over the domains below and every column set, with every reference
\* gene and control group; the call may be repeated on the frame it left.

Genes == {"R", "T"}
Groups == {1, 2}
CtCells == {NumCell(20), NumCell(22), StrCell, NaNCell}
\* a reference gene that no dataset holds (the function does not validate it)
AbsentGene == "X"

RowSet(c) ==
    [Gene : IF "Gene" \in c THEN Genes ELSE {""},
     Group : IF "Group" \in c THEN Groups ELSE {0},
     Ct : IF "Ct" \in c THEN CtCells ELSE {NaNCell}]

Frame(c, r) == [loaded |-> TRUE, columns |-> c, rows |-> r]

\* no file result.csv
NoCsv == [written |-> FALSE, bytes |-> <<>>, floats |-> <<>>]

InitCalc ==
    /\ \E c \in SUBSET required_columns : \E n \in 0..MaxRows :
          \E r \in [1..n -> RowSet(c)] : df = Frame(c, r)
    /\ refSel \in Genes \cup {AbsentGene}
    /\ ctrlSel \in Groups
    /\ refValues = <<>>
    /\ ctrlValues = <<>>
    /\ table = <<>>
    /\ csv = NoCsv
    /\ popups = <<>>
    /\ charts = <<>>
    /\ toPlot = <<>>
    /\ lastEvent = "none"
    /\ lastCall = NoCall

Call ==
    LET r == calculate_analysis(df, refSel, ctrlSel)
    IN /\ df' = r.data
       /\ lastCall' = [valid |-> TRUE, data |-> df, reference_gene |-> refSel,
                       control_group_number |-> ctrlSel, outcome |-> r.outcome]
       /\ UNCHANGED <<refValues, ctrlValues, refSel, ctrlSel, table, csv,
                      popups, charts, toPlot, lastEvent>>

NextCalc == Call

SpecCalc == InitCalc /\ [][NextCalc]_vars

----------------------------------------------------------------------------
\* create_gui (app.py:88-176): the event loop

\* fold_change_df.insert(0, 'Gene', gene); ....values.tolist(), over the
\* dictionary in insertion order
RECURSIVE table_values(_)
table_values(fold_change_dict) ==
    IF fold_change_dict = <<>> THEN <<>>
    ELSE LET e == Head(fold_change_dict)
         IN [i \in 1..Len(e.rows) |->
                [Gene |-> e.gene, Group |-> e.rows[i].Group, dCt |-> e.rows[i].dCt,
                 ddCt |-> e.rows[i].ddCt, FoldChange |-> e.rows[i].FoldChange]]
            \o table_values(Tail(fold_change_dict))

\* Text on its way to the file: bytes, and the floats whose text is entered
\* as ReprWhole
Text(bytes) == [bytes |-> bytes, floats |-> <<>>]
Cat(a, b) == [bytes |-> a.bytes \o b.bytes, floats |-> a.floats \o b.floats]

\* the signature the utf_8_sig encoder puts first; csv.writer's delimiter and
\* line terminator; the header row in UTF-8 (the Greek capital delta is CE 94)
BOM == <<239, 187, 191>>
Comma == <<44>>
CRLF == <<13, 10>>
HeaderText ==
    <<71, 101, 110, 101, 44, 71, 114, 111, 117, 112, 44, 206, 148, 67, 116, 44,
      206, 148, 206, 148, 67, 116, 44,
      70, 111, 108, 100, 32, 67, 104, 97, 110, 103, 101>>

\* UTF-8 of the gene names of the frames below (none needs quoting)
Utf8(gene) ==
    CASE gene = "R" -> <<82>>
      [] gene = "T" -> <<84>>
      [] gene = "U" -> <<85>>
      [] gene = "V" -> <<86>>
      [] gene = "X" -> <<88>>
      [] OTHER -> <<>>

\* the decimal digits of a natural number, in ASCII
RECURSIVE DecDigits(_)
DecDigits(n) ==
    IF n < 10 THEN <<48 + n>> ELSE Append(DecDigits(n \div 10), 48 + (n % 10))

\* str(int), of a Group value
IntText(i) == IF i < 0 THEN <<45>> \o DecDigits(-i) ELSE DecDigits(i)

RECURSIVE Log2(_)
Log2(d) == IF d = 1 THEN 0 ELSE 1 + Log2(d \div 2)

RECURSIVE FiveTo(_)
FiveTo(e) == IF e = 0 THEN 1 ELSE 5 * FiveTo(e - 1)

RECURSIVE Zeros(_)
Zeros(c) == IF c = 0 THEN <<>> ELSE <<48>> \o Zeros(c - 1)

\* the entries of bytes that stand for the text of a float whose digits are
\* not computed, and the least and greatest length of such a text ('0.1',
\* '-1.7976931348623157e+308')
ReprWhole == -1
ReprCut == -2
MinReprLen == 3
MaxReprLen == 24

\* the floats whose repr is computed: n / 2^k exactly with k <= 9 and
\* |n| * 5^k <= MaxPrinted.  The digits of |n| * 5^k are then fewer than 16,
\* so they are the shortest text that reads back as the float, and the value
\* is 0 or in [2^-9, 10^16), where repr uses no exponent.
MaxPrinted == 2000000000
Printed(v) ==
    /\ v.k = "num"
    /\ v.exact
    /\ IsPow2(v.d)
    /\ v.d <= 512
    /\ Abs(v.n) <= MaxPrinted \div FiveTo(Log2(v.d))

\* str(float), as csv.writer writes a float cell
float_repr(v) ==
    IF v.k = "nan" THEN Text(<<110, 97, 110>>)
    ELSE IF ~Printed(v) THEN [bytes |-> <<ReprWhole>>, floats |-> <<v>>]
    ELSE LET k == Log2(v.d)
             D == DecDigits(Abs(v.n) * FiveTo(k))
             L == Len(D)
             sign == IF v.n < 0 THEN <<45>> ELSE <<>>
         IN Text(sign \o
                 (IF L > k
                  THEN SubSeq(D, 1, L - k) \o <<46>> \o
                       (IF k = 0 THEN <<48>> ELSE SubSeq(D, L - k + 1, L))
                  ELSE <<48, 46>> \o Zeros(k - L) \o D))

\* writer.writerows: one line per record
csv_row(r) ==
    Cat(Text(Utf8(r.Gene) \o Comma \o IntText(r.Group) \o Comma),
        Cat(float_repr(r.dCt),
            Cat(Text(Comma),
                Cat(float_repr(r.ddCt),
                    Cat(Text(Comma), Cat(float_repr(r.FoldChange), Text(CRLF)))))))

RECURSIVE csv_rows(_)
csv_rows(rows) ==
    IF rows = <<>> THEN Text(<<>>) ELSE Cat(csv_row(Head(rows)), csv_rows(Tail(rows)))

\* result.csv holding the header and these records
result_csv(rows) ==
    LET t == Cat(Text(BOM \o HeaderText \o CRLF), csv_rows(rows))
    IN [written |-> TRUE, bytes |-> t.bytes, floats |-> t.floats]

\* write_csv: result.csv is rewritten, header first
write_csv(fold_change_dict) == result_csv(table_values(fold_change_dict))

\* the floats entered in bytes, and the least and greatest number of bytes
\* on disk that bytes can stand for
Tokens(bytes) == Cardinality({i \in 1..Len(bytes) : bytes[i] < 0})
MinSize(bytes) == Len(bytes) + (MinReprLen - 1) * Tokens(bytes)
MaxSize(bytes) == Len(bytes) + (MaxReprLen - 1) * Tokens(bytes)

\* the first m entries of a file
Prefix(file, m) ==
    LET b == SubSeq(file.bytes, 1, m)
    IN [written |-> TRUE, bytes |-> b, floats |-> SubSeq(file.floats, 1, Tokens(b))]

\* The files a write of `full` that raises can leave when no more than n
\* bytes reach the disk: the first n bytes of it, the file ending on a whole
\* entry or inside the text of a float.  None when n bytes hold all of it.
\* (Only entries from..to can be the last: fewer leave the file shorter than
\* n bytes whatever the floats' lengths, more make it longer.)
cut_files(full, n) ==
    IF full.floats = <<>>
    THEN (IF n < Len(full.bytes) THEN {Prefix(full, n)} ELSE {})
    ELSE
    LET L == Len(full.bytes)
        lo == n - MaxReprLen * Len(full.floats)
        from == IF lo < 0 THEN 0 ELSE lo
        to == IF n < L THEN n ELSE L - 1
    IN
    {Prefix(full, m) :
        m \in {i \in from..to :
                  /\ MinSize(SubSeq(full.bytes, 1, i)) <= n
                  /\ n <= MaxSize(SubSeq(full.bytes, 1, i))}}
    \cup {[Prefix(full, m) EXCEPT !.bytes[m] = ReprCut] :
             m \in {i \in (from + 1)..(to + 1) :
                       /\ full.bytes[i] = ReprWhole
                       /\ MinSize(SubSeq(full.bytes, 1, i - 1)) + 1 <= n
                       /\ n <= MaxSize(SubSeq(full.bytes, 1, i - 1)) + MaxReprLen - 1}}

\* A write of `full` when no more than n bytes can reach the disk: it
\* completes when the file is no longer than n bytes, and raises, leaving
\* the first n bytes, when it is longer.  The length of a file holding
\* floats entered as ReprWhole is anything from MinSize to MaxSize, so both
\* can be outcomes for one n.
cut_write(full, n) ==
    (IF MinSize(full.bytes) <= n THEN {[csv |-> full, error |-> FALSE]} ELSE {})
    \cup {[csv |-> c, error |-> TRUE] : c \in cut_files(full, n)}

\* plot_graphs: one chart per gene of the dictionary
plot_graphs(fold_change_dict) ==
    [i \in 1..Len(fold_change_dict) |-> fold_change_dict[i].gene]

Popup(where, error, detail, missing) ==
    [where |-> where, error |-> error, detail |-> detail, missing |-> missing]

\* The files the user may select.  xlsx: the path ends in .xlsx; readable:
\* pd.read_excel returns; frame: what it returns ('N/A' cells read as NaN).
Row(gene, group, ct) == [Gene |-> gene, Group |-> group, Ct |-> ct]
File(xlsx, readable, frame) == [xlsx |-> xlsx, readable |-> readable, frame |-> frame]

\* R in groups 1, 2; T in 1, 2; U in 2 only; a numeric text and a text cell
FramePlate ==
    Frame(required_columns,
          <<Row("R", 1, NumCell(20)), Row("R", 1, NumCell(22)),
            Row("R", 2, NumStrCell(18)), Row("T", 1, NumCell(25)),
            Row("T", 2, NumCell(23)), Row("U", 2, StrCell)>>)
\* an empty Ct cell; the mean of R in group 2 is rounded (64 / 3)
FrameRounded ==
    Frame(required_columns,
          <<Row("T", 1, NaNCell), Row("T", 2, NumCell(22)),
            Row("R", 1, NumCell(20)), Row("R", 2, NumCell(21)),
            Row("R", 2, NumCell(21)), Row("R", 2, NumCell(22))>>)
FrameNoGroup ==
    Frame({"Gene", "Ct"}, <<Row("V", 0, NumCell(20)), Row("R", 0, StrCell)>>)
FrameNoGene ==
    Frame({"Group", "Ct"}, <<Row("", 2, NumCell(20)), Row("", 4, StrCell)>>)
FrameNoCt ==
    Frame({"Gene", "Group"}, <<Row("R", 1, NaNCell), Row("T", 1, NaNCell)>>)

Files ==
    {File(TRUE, TRUE, FramePlate), File(TRUE, TRUE, FrameRounded),
     File(TRUE, TRUE, FrameNoGroup), File(TRUE, TRUE, FrameNoGene),
     File(TRUE, TRUE, FrameNoCt),
     File(TRUE, FALSE, NoFrame), File(FALSE, TRUE, NoFrame)}

Init ==
    /\ df = NoFrame
    /\ refValues = <<>>
    /\ ctrlValues = <<>>
    /\ refSel = ""
    /\ ctrlSel = 0
    /\ table = <<>>
    /\ csv = NoCsv
    /\ popups = <<>>
    /\ charts = <<>>
    /\ toPlot = <<>>
    /\ lastEvent = "none"
    /\ lastCall = NoCall

\* the window is open
Open == lastEvent # "Exit"

\* the loop is at window.read(): no handler is blocked in plt.show()
Running == Open /\ toPlot = <<>>

\* event == "Read" and values['-FILE-'] (app.py:111-134).  What
\* Combo.update(values=...) does to the selection is the GUI library's choice
\* (cleared, kept, or the first value, which SelectReference/SelectControl
\* reach): cleared and kept are both admitted here.
Read(f) ==
    /\ Running
    /\ lastEvent' = "Read"
    /\ charts' = <<>>
    /\ UNCHANGED <<table, csv, toPlot, lastCall>>
    /\ IF ~f.xlsx
       THEN /\ popups' = <<Popup("reading", "ValueError",
                                 "Please select an Excel file.", {})>>
            /\ UNCHANGED <<df, refValues, refSel, ctrlValues, ctrlSel>>
       ELSE IF ~f.readable
       THEN /\ popups' = <<Popup("reading", "read_excel", "", {})>>
            /\ UNCHANGED <<df, refValues, refSel, ctrlValues, ctrlSel>>
       ELSE /\ df' = f.frame
            /\ IF "Gene" \notin f.frame.columns
               THEN /\ popups' = <<Popup("reading", "ValueError",
                                         "Column 'Gene' not found in the Excel file.",
                                         {})>>
                    /\ UNCHANGED <<refValues, refSel, ctrlValues, ctrlSel>>
               ELSE /\ refValues' = Unique(GeneColumn(f.frame))
                    /\ refSel' \in {"", refSel}
                    /\ IF "Group" \notin f.frame.columns
                       THEN /\ popups' = <<Popup("reading", "ValueError",
                                  "Column 'Group' not found in the Excel file.", {})>>
                            /\ UNCHANGED <<ctrlValues, ctrlSel>>
                       ELSE /\ ctrlValues' = Unique(GroupColumn(f.frame))
                            /\ ctrlSel' \in {0, ctrlSel}
                            /\ popups' = <<>>

\* the user picks a value of a selector: no event is returned to the loop, and
\* the selectors stay live while plt.show() runs the GUI's event loop
SelectReference ==
    /\ Open
    /\ \E i \in 1..Len(refValues) : refSel' = refValues[i]
    /\ UNCHANGED <<df, refValues, ctrlValues, ctrlSel, table, csv, popups,
                   charts, toPlot, lastEvent, lastCall>>

SelectControl ==
    /\ Open
    /\ \E i \in 1..Len(ctrlValues) : ctrlSel' = ctrlValues[i]
    /\ UNCHANGED <<df, refValues, ctrlValues, refSel, table, csv, popups,
                   charts, toPlot, lastEvent, lastCall>>

\* The try block shared by Analyze and Plot Graphs up to the call
\* (app.py:138-145, 163-170): what is raised before the call, if anything
raised_before_call(data, control_group_number) ==
    IF ~data.loaded
    THEN <<Popup("analysis", "TypeError", "", {})>>
    ELSE IF "Group" \notin data.columns
    THEN <<Popup("analysis", "KeyError", "Group", {})>>
    ELSE IF \A i \in 1..Len(data.rows) : data.rows[i].Group # control_group_number
    THEN <<Popup("analysis", "ValueError", "Invalid control group number", {})>>
    ELSE <<>>

raised_by_call(outcome) ==
    IF outcome.status = "ok" THEN <<>>
    ELSE <<Popup("analysis", outcome.error, "", outcome.missing)>>

\* variant: the genes processed before a failure are displayed
TablePartialOnError(outcome, shown) == table_values(outcome.fold_change_dict)

\* window['-TABLE-'].update(values=table_values), reached when the call returns
table_after_analysis(outcome, shown) ==
    IF outcome.status = "ok" THEN table_values(outcome.fold_change_dict) ELSE shown

\* How the file system answers write_csv.  "none": no error; "open": open()
\* raises; "write": no more than n bytes can reach the disk (a full disk, a
\* file size limit); "close": close() raises with everything written.  The
\* output is buffered and flushed on close, so n can be any number of bytes;
\* these are the ones tried: an empty file, a header cut inside a letter and
\* inside the line terminator, a record cut inside a number, and a limit
\* that the longer files exceed and the shorter ones do not.
WriteLimits == {0, 20, 38, 53, 93}
Faults ==
    {[at |-> a, n |-> 0] : a \in {"none", "open", "close"}}
    \cup {[at |-> "write", n |-> n] : n \in WriteLimits}

\* write_csv(fold_change_dict) under io: the file it leaves and whether it
\* raises OSError.  The file is as it was when open() raises; otherwise
\* open(..., 'w') has truncated it and it holds the bytes written.
csv_written(fold_change_dict, file, io) ==
    IF io.at = "open" THEN {[csv |-> file, error |-> TRUE]}
    ELSE IF io.at = "close"
    THEN {[csv |-> write_csv(fold_change_dict), error |-> TRUE]}
    ELSE IF io.at = "write" THEN cut_write(write_csv(fold_change_dict), io.n)
    ELSE {[csv |-> write_csv(fold_change_dict), error |-> FALSE]}

\* write_csv(fold_change_dict), reached when the call returns: the file it
\* leaves and what it raises
csv_after_analysis(outcome, file, io) ==
    IF outcome.status # "ok"
    THEN {[csv |-> file, raised |-> raised_by_call(outcome)]}
    ELSE {[csv |-> w.csv,
           raised |-> IF w.error
                      THEN <<Popup("analysis", "OSError", "result.csv", {})>>
                      ELSE <<>>] :
             w \in csv_written(outcome.fold_change_dict, file, io)}

\* event == "Analyze" and values['-REFERENCE-'] and values['-CONTROL-']
\* (app.py:136-159)
Analyze(io) ==
    /\ Running
    /\ refSel # ""
    /\ ctrlSel # 0
    /\ lastEvent' = "Analyze"
    /\ charts' = <<>>
    /\ UNCHANGED <<refValues, ctrlValues, refSel, ctrlSel, toPlot, lastCall>>
    /\ IF raised_before_call(df, ctrlSel) # <<>>
       THEN /\ popups' = raised_before_call(df, ctrlSel)
            /\ UNCHANGED <<df, table, csv>>
       ELSE LET r == calculate_analysis(df, refSel, ctrlSel)
            IN /\ df' = r.data
               /\ table' = table_after_analysis(r.outcome, table)
               /\ \E w \in csv_after_analysis(r.outcome, csv, io) :
                     /\ csv' = w.csv
                     /\ popups' = w.raised

\* event == "Plot Graphs" and values['-REFERENCE-'] and values['-CONTROL-']
\* (app.py:161-174), up to the first plt.show(): the chart of the first gene
\* is on screen and the handler is blocked until it is dismissed
PlotGraphs ==
    /\ Running
    /\ refSel # ""
    /\ ctrlSel # 0
    /\ lastEvent' = "Plot Graphs"
    /\ UNCHANGED <<refValues, ctrlValues, refSel, ctrlSel, table, csv, lastCall>>
    /\ IF raised_before_call(df, ctrlSel) # <<>>
       THEN /\ popups' = raised_before_call(df, ctrlSel)
            /\ charts' = <<>>
            /\ toPlot' = <<>>
            /\ UNCHANGED df
       ELSE LET r == calculate_analysis(df, refSel, ctrlSel)
                genes == IF r.outcome.status = "ok"
                         THEN plot_graphs(r.outcome.fold_change_dict) ELSE <<>>
            IN /\ df' = r.data
               /\ toPlot' = genes
               /\ charts' = IF genes = <<>> THEN <<>> ELSE <<genes[1]>>
               /\ popups' = raised_by_call(r.outcome)

\* plt.show() returns (app.py:86): the chart on screen is dismissed and the
\* loop of plot_graphs shows the next one, or the handler returns
DismissChart ==
    /\ toPlot # <<>>
    /\ toPlot' = Tail(toPlot)
    /\ charts' = IF Tail(toPlot) = <<>> THEN charts ELSE Append(charts, toPlot[2])
    /\ UNCHANGED <<df, refValues, ctrlValues, refSel, ctrlSel, table, csv,
                   popups, lastEvent, lastCall>>

\* event == sg.WINDOW_CLOSED or event == "Exit": the loop ends
Exit ==
    /\ Running
    /\ lastEvent' = "Exit"
    /\ UNCHANGED <<df, refValues, ctrlValues, refSel, ctrlSel, table, csv,
                   popups, charts, toPlot, lastCall>>

Next ==
    \/ \E f \in Files : Read(f)
    \/ SelectReference
    \/ SelectControl
    \/ \E io \in Faults : Analyze(io)
    \/ PlotGraphs
    \/ DismissChart
    \/ Exit

Spec == Init /\ [][Next]_vars

----------------------------------------------------------------------------
\* What the claims speak of, stated on the input of the last call
\* (lastCall.data, before the call) independently of the computation above.

In == lastCall.data
Ref == lastCall.reference_gene
Ctrl == lastCall.control_group_number
Out == lastCall.outcome
Returned == lastCall.valid /\ Out.status = "ok"
Failed == lastCall.valid /\ Out.status = "error"

IsNumeric(c) == c.k \in {"num", "numstr"}

GenesOf(data) == {data.rows[i].Gene : i \in 1..Len(data.rows)}
GroupsOf(data) == {data.rows[i].Group : i \in 1..Len(data.rows)}
GroupsOfGene(data, gene) ==
    {data.rows[i].Group : i \in {j \in 1..Len(data.rows) : data.rows[j].Gene = gene}}

\* the rows of the (gene, group) pair
PairRows(data, gene, g) ==
    {i \in 1..Len(data.rows) : data.rows[i].Gene = gene /\ data.rows[i].Group = g}
NumericRows(data, gene, g) ==
    {i \in PairRows(data, gene, g) : IsNumeric(data.rows[i].Ct)}

RECURSIVE SumCt(_, _)
SumCt(data, I) ==
    IF I = {} THEN 0
    ELSE LET i == CHOOSE j \in I : TRUE
         IN data.rows[i].Ct.v + SumCt(data, I \ {i})

\* mean Ct of the pair over its numeric values, undefined when it has none
PairMean(data, gene, g) ==
    LET I == NumericRows(data, gene, g)
    IN IF I = {} THEN NaN ELSE Div(SumCt(data, I), Cardinality(I))

Entries == {Out.fold_change_dict[i] : i \in 1..Len(Out.fold_change_dict)}
Records(e) == {e.rows[i] : i \in 1..Len(e.rows)}
TargetsOf(data, reference_gene) == GenesOf(data) \ {reference_gene}

\* C1: in every returned mapping, the dCt of target gene and group g is the
\* target's mean Ct in g minus the reference gene's mean Ct in the same g, and
\* NaN when the reference gene has no row in g.
DeltaCtWithinSameGroup ==
    Returned =>
        \A e \in Entries : \A rec \in Records(e) :
            rec.dCt = IF rec.Group \in GroupsOfGene(In, Ref)
                      THEN Sub(PairMean(In, e.gene, rec.Group),
                               PairMean(In, Ref, rec.Group))
                      ELSE NaN

\* C2 as stated: in every returned mapping the control group's record has
\* ddCt 0 and FoldChange 1, whatever the Ct values.
ControlAlwaysZeroOne ==
    Returned =>
        \A e \in Entries : \A rec \in Records(e) :
            rec.Group = Ctrl => rec.ddCt = Zero /\ rec.FoldChange = One

\* C2 amended: the control group's record has ddCt 0 and FoldChange 1 when
\* its dCt is a number, and ddCt and FoldChange NaN when its dCt is NaN.
ControlZeroOneWhenDefined ==
    Returned =>
        \A e \in Entries : \A rec \in Records(e) :
            rec.Group = Ctrl =>
                IF rec.dCt.k = "num"
                THEN rec.ddCt = Zero /\ rec.FoldChange = One
                ELSE rec.ddCt = NaN /\ rec.FoldChange = NaN

\* a returned gene with two groups whose control record has a defined,
\* non-zero dCt
ControlZeroOneWitness ==
    /\ Returned
    /\ \E e \in Entries : \E rec \in Records(e) :
          /\ Len(e.rows) = 2
          /\ rec.Group = Ctrl
          /\ rec.dCt.k = "num"
          /\ rec.dCt # Zero
          /\ rec.ddCt = Zero

EveryPairNumeric(data) ==
    \A gene \in GenesOf(data) : \A g \in GroupsOfGene(data, gene) :
        NumericRows(data, gene, g) # {}

\* C3: when every pair has a numeric Ct and the call returns, the keys are
\* the distinct genes other than the reference gene, each once, and each
\* gene has one record per group of its rows and no other record.
OneRecordPerGeneAndGroup ==
    (Returned /\ EveryPairNumeric(In)) =>
        /\ {e.gene : e \in Entries} = TargetsOf(In, Ref)
        /\ Len(Out.fold_change_dict) = Cardinality(TargetsOf(In, Ref))
        /\ \A e \in Entries :
              /\ {rec.Group : rec \in Records(e)} = GroupsOfGene(In, e.gene)
              /\ Len(e.rows) = Cardinality(GroupsOfGene(In, e.gene))

\* the reference gene has rows, and a target gene with two groups is returned
OneRecordPerGeneAndGroupWitness ==
    /\ Returned
    /\ EveryPairNumeric(In)
    /\ Ref \in GenesOf(In)
    /\ \E e \in Entries : Len(e.rows) = 2

\* C4: a target gene without a row of the control group makes the call end
\* in an error, with no mapping returned.
MissingControlRowFails ==
    (/\ lastCall.valid
     /\ required_columns \subseteq In.columns
     /\ \E gene \in TargetsOf(In, Ref) : Ctrl \notin GroupsOfGene(In, gene))
        => Out.status = "error" /\ Out.error = "IndexError"

\* the control group occurs in the dataset, a gene before the failing one was
\* processed, and the call failed
MissingControlRowWitness ==
    /\ Failed
    /\ Out.error = "IndexError"
    /\ Ctrl \in GroupsOf(In)
    /\ Out.fold_change_dict # <<>>

\* C5: a non-numeric or absent Ct never makes the call fail (a call on a
\* frame with the three columns fails only for a target gene without control
\* row); such a value is left out of its pair's mean; a target pair with no
\* numeric Ct still has its record, with dCt, ddCt and FoldChange NaN.
MissingCtIsSkipped ==
    (lastCall.valid /\ required_columns \subseteq In.columns) =>
        /\ Failed =>
              \E gene \in TargetsOf(In, Ref) : Ctrl \notin GroupsOfGene(In, gene)
        /\ Returned =>
              \A e \in Entries :
                  /\ \A g \in GroupsOfGene(In, e.gene) :
                        \E rec \in Records(e) : rec.Group = g
                  /\ \A rec \in Records(e) :
                        /\ NumericRows(In, e.gene, rec.Group) = {} =>
                              /\ rec.dCt = NaN
                              /\ rec.ddCt = NaN
                              /\ rec.FoldChange = NaN
                        /\ GroupsOfGene(In, e.gene) = GroupsOfGene(In, Ref) =>
                              rec.dCt = Sub(PairMean(In, e.gene, rec.Group),
                                            PairMean(In, Ref, rec.Group))

\* a returned record of a target pair whose Ct values are all missing, in a
\* dataset where another pair mixes numeric and non-numeric values
MissingCtIsSkippedWitness ==
    /\ Returned
    /\ \E e \in Entries : \E rec \in Records(e) :
          /\ NumericRows(In, e.gene, rec.Group) = {}
          /\ rec.dCt = NaN
    /\ \E gene \in GenesOf(In) : \E g \in GroupsOfGene(In, gene) :
          /\ NumericRows(In, gene, g) # {}
          /\ NumericRows(In, gene, g) # PairRows(In, gene, g)

\* C6: after a call the dataset passed in is as it was before the call.
DatasetUnchangedByCall == lastCall.valid => df = lastCall.data

\* C7: a call with the parameters of the last call, on the frame that call
\* left, has the outcome of the last call.
SecondCallSameOutcome ==
    lastCall.valid => calculate_analysis(df, Ref, Ctrl).outcome = Out

\* the first call changed the frame and returned a defined dCt
SecondCallSameOutcomeWitness ==
    /\ Returned
    /\ df # lastCall.data
    /\ \E e \in Entries : \E rec \in Records(e) : rec.dCt.k = "num"

\* C8: on a frame lacking a required column the call fails with the schema
\* error naming exactly the missing columns, before coercion and before any
\* gene is processed.
SchemaErrorNamesMissing ==
    (lastCall.valid /\ required_columns \ In.columns # {}) =>
        /\ Out.status = "error"
        /\ Out.error = "ValueError"
        /\ Out.missing = required_columns \ In.columns
        /\ Out.fold_change_dict = <<>>
        /\ df = In

\* a frame without Group, holding an uncoerced non-numeric Ct after the call
SchemaErrorWitness ==
    /\ Failed
    /\ In.columns = {"Gene", "Ct"}
    /\ Out.missing = {"Group"}
    /\ \E i \in 1..Len(df.rows) : df.rows[i].Ct = StrCell

\* The Analyze handler cannot complete on this frame with this selection:
\* the frame or a column is missing, the control group is not among the
\* frame's groups, or a target gene has no row of the control group.
AnalysisFails(data, reference_gene, control_group_number) ==
    \/ ~data.loaded
    \/ ~(required_columns \subseteq data.columns)
    \/ control_group_number \notin GroupsOf(data)
    \/ \E gene \in TargetsOf(data, reference_gene) :
          control_group_number \notin GroupsOfGene(data, gene)

\* C9: an Analyze whose computation fails, or whose control group is not
\* among the dataset's groups, reports exactly one error message and leaves
\* the results table and result.csv as they were (no record of any gene is
\* displayed or written); and an Analyze that reports an error other than
\* write_csv's is such a one.
NoPartialResults ==
    [][(/\ lastEvent' = "Analyze"
        /\ refSel' = refSel
        /\ ctrlSel' = ctrlSel)
          => /\ AnalysisFails(df, refSel, ctrlSel) =>
                   /\ Len(popups') = 1
                   /\ popups'[1].error # "OSError"
                   /\ table' = table
                   /\ csv' = csv
             /\ (popups' # <<>> /\ popups'[1].error # "OSError") =>
                   AnalysisFails(df, refSel, ctrlSel)]_vars

\* results of an earlier analysis are displayed and written, and the last
\* Analyze failed on a gene that is not the first target gene
NoPartialResultsWitness ==
    /\ lastEvent = "Analyze"
    /\ Len(popups) = 1
    /\ popups[1].error = "IndexError"
    /\ table # <<>>
    /\ csv = result_csv(table)
    /\ calculate_analysis(df, refSel, ctrlSel).outcome.status = "error"
    /\ calculate_analysis(df, refSel, ctrlSel).outcome.fold_change_dict # <<>>

\* C10: the reference-gene selector offers exactly the distinct Gene values
\* and the control-group selector exactly the distinct Group values of the
\* current dataset (a Read that reports an error having replaced neither the
\* dataset nor a selector).
SelectorsMatchDataset ==
    /\ {refValues[i] : i \in 1..Len(refValues)} =
          (IF df.loaded /\ "Gene" \in df.columns THEN GenesOf(df) ELSE {})
    /\ {ctrlValues[i] : i \in 1..Len(ctrlValues)} =
          (IF df.loaded /\ "Group" \in df.columns THEN GroupsOf(df) ELSE {})

====
